---------------------------- MODULE Spec2Model ----------------------------
(* Model of szuro/zabbix-utils:                                            *)
(*   proxy-dashboards/proxy_dashboard.py  (dashboard generation and the    *)
(*                                          create-or-update loop)         *)
(*   template_syncer/template_syncer.py   (format inference, import rules  *)
(*                                          and the template import loop)  *)
EXTENDS Integers, Sequences, FiniteSets, TLC

(***************************************************************************)
(* Bounds of the model.                                                    *)
(***************************************************************************)
\* longest list of proxies a host group holds
MaxTargets == 3
\* longest list of templates in the syncer's configuration
MaxTemplates == 2

(***************************************************************************)
(* Semantic versions: <<major, minor, patch>>, compared as                *)
(* semantic_version.Version compares release versions.                     *)
(***************************************************************************)
VersionLess(a, b) ==
    \/ a[1] < b[1]
    \/ a[1] = b[1] /\ a[2] < b[2]
    \/ a[1] = b[1] /\ a[2] = b[2] /\ a[3] < b[3]

VersionGE(a, b) == ~VersionLess(a, b)

VERSION_SUPPORTING_TOKENS == <<5, 4, 0>>
VERSION_SUPPORTING_PAGES == <<5, 4, 0>>

\* the server versions a run may meet
Versions == {<<4, 4, 9>>, <<5, 3, 9>>, <<5, 4, 0>>, <<5, 4, 1>>, <<6, 0, 0>>}

(***************************************************************************)
(* Document builder (proxy_dashboard.py).                                  *)
(***************************************************************************)
PAGED == "paged"
SINGLE == "single"

Field(t, n, v) == [type |-> t, name |-> n, value |-> v]

Widget(t, n, x, y, w, h, f) ==
    [type |-> t, name |-> n, x |-> x, y |-> y, width |-> w, height |-> h,
     view_mode |-> "0", fields |-> f]

QueueSizeFields(proxy_name) == <<
    Field("1", "ds.hosts.0.0", proxy_name),
    Field("1", "ds.items.0.0", "Zabbix queue"),
    Field("1", "ds.color.0", "B0AF07"),
    Field("1", "ds.hosts.1.0", proxy_name),
    Field("1", "ds.items.1.0", "Zabbix queue over 10 minutes"),
    Field("1", "ds.color.1", "E53935"),
    Field("1", "ds.hosts.2.0", proxy_name),
    Field("1", "ds.items.2.0", "Zabbix preprocessing queue"),
    Field("1", "ds.color.2", "0275B8"),
    Field("1", "lefty_min", "0"),
    Field("1", "problemhosts.0", proxy_name),
    Field("0", "ds.width.0", "2"),
    Field("0", "ds.transparency.0", "0"),
    Field("0", "ds.fill.0", "0"),
    Field("0", "ds.width.1", "2"),
    Field("0", "ds.transparency.1", "0"),
    Field("0", "ds.fill.1", "0"),
    Field("0", "ds.width.2", "2"),
    Field("0", "ds.transparency.2", "0"),
    Field("0", "ds.fill.2", "0"),
    Field("0", "righty", "0"),
    Field("0", "legend", "0"),
    Field("0", "show_problems", "1"),
    Field("0", "graph_item_problems", "0") >>

ValuesProcessedFields(proxy_name) == <<
    Field("1", "ds.hosts.0.0", proxy_name),
    Field("1", "ds.items.0.0", "Number of processed *values per second"),
    Field("1", "ds.color.0", "00BFFF"),
    Field("1", "lefty_min", "0"),
    Field("1", "problemhosts.0", proxy_name),
    Field("0", "ds.transparency.0", "0"),
    Field("0", "righty", "0"),
    Field("0", "legend", "0"),
    Field("0", "show_problems", "1"),
    Field("0", "graph_item_problems", "0") >>

\* the two utilization graphs differ only in the item pattern
UtilizationFields(proxy_name, items) == <<
    Field("1", "ds.hosts.0.0", proxy_name),
    Field("1", "ds.items.0.0", items),
    Field("1", "ds.color.0", "E57373"),
    Field("1", "lefty_min", "0"),
    Field("1", "lefty_max", "100"),
    Field("1", "problemhosts.0", proxy_name),
    Field("0", "ds.transparency.0", "0"),
    Field("0", "righty", "0"),
    Field("0", "legend", "0"),
    Field("0", "show_problems", "1"),
    Field("0", "graph_item_problems", "0") >>

CacheUsageFields(proxy_name) == <<
    Field("1", "ds.hosts.0.0", proxy_name),
    Field("1", "ds.items.0.0", "Zabbix*cache*% used"),
    Field("1", "ds.color.0", "4DB6AC"),
    Field("1", "lefty_min", "0"),
    Field("1", "lefty_max", "100"),
    Field("1", "problemhosts.0", proxy_name),
    Field("0", "ds.width.0", "2"),
    Field("0", "ds.transparency.0", "0"),
    Field("0", "ds.fill.0", "0"),
    Field("0", "righty", "0"),
    Field("0", "legend", "0"),
    Field("0", "show_problems", "1"),
    Field("0", "graph_item_problems", "0") >>

\* mutant: the host id of the dashboard the widget was exported from is left in
ProblemsFieldsFixedHost(proxy_id) == <<
    Field("3", "hostids", "10081"),
    Field("0", "show_opdata", "1") >>

ProblemsFields(proxy_id) == <<
    Field("3", "hostids", proxy_id),
    Field("0", "show_opdata", "1") >>

\* generate_dashboard_page(proxy)
generate_dashboard_page(proxy) ==
    [name |-> proxy.name,
     display_period |-> "0",
     widgets |-> <<
        Widget("svggraph", "Queue size", "16", "5", "8", "5",
               QueueSizeFields(proxy.name)),
        Widget("svggraph", "Values processed per second", "8", "0", "8", "5",
               ValuesProcessedFields(proxy.name)),
        Widget("svggraph", "Utilization of data collectors", "0", "5", "8", "5",
               UtilizationFields(proxy.name, "Utilization of * data collector *")),
        Widget("svggraph", "Utilization of internal processes", "8", "5", "8", "5",
               UtilizationFields(proxy.name, "Utilization of * internal *")),
        Widget("svggraph", "Cache usage", "16", "0", "8", "5",
               CacheUsageFields(proxy.name)),
        Widget("problems", "", "0", "0", "8", "5",
               ProblemsFields(proxy.hostid)) >>]

\* generate_dashboard(dashboard_name, owner_id): a dict with these six keys
generate_dashboard(dashboard_name, owner_id) ==
    [name |-> dashboard_name,
     userid |-> owner_id,
     private |-> "1",
     display_period |-> "30",
     auto_start |-> "1",
     pages |-> <<>>]

\* dashboard[key] = value (adds the key when the dict lacks it)
SetKey(d, key, value) == (key :> value) @@ d

\* del dashboard[key]
DelKey(d, key) == [k \in DOMAIN d \ {key} |-> d[k]]


\* zapi.version >= VERSION_SUPPORTING_PAGES (lines 127 and 145)
SupportsPages(zabbix_version) == VersionGE(zabbix_version, VERSION_SUPPORTING_PAGES)

\* mutant: the threshold version itself is refused a token login
SupportsTokensStrict(zabbix_version) ==
    VersionLess(VERSION_SUPPORTING_TOKENS, zabbix_version)

\* zabbix_version < VERSION_SUPPORTING_TOKENS raises (line 36)
SupportsTokens(zabbix_version) == VersionGE(zabbix_version, VERSION_SUPPORTING_TOKENS)

\* mutant: the version is not checked
select_creation_mode_unchecked(mode, zabbix_version) == mode

\* select_creation_mode: the mode, or "RuntimeError" when it raises
select_creation_mode(mode, zabbix_version) ==
    IF mode = PAGED /\ VersionLess(zabbix_version, VERSION_SUPPORTING_PAGES)
    THEN "RuntimeError"
    ELSE mode

\* mutant: paged mode builds a dashboard per proxy
BuildPagedPerProxy(hosts, owner) ==
    [k \in 1..Len(hosts) |->
        SetKey(generate_dashboard("Zabbix proxies health", owner), "pages",
               <<generate_dashboard_page(hosts[k])>>)]

\* main, lines 120-122: one dashboard, one page per proxy
BuildPaged(hosts, owner) ==
    LET dashboard == generate_dashboard("Zabbix proxies health", owner)
    IN  << SetKey(dashboard, "pages",
                  [k \in 1..Len(hosts) |-> generate_dashboard_page(hosts[k])]) >>

\* mutant: no fallback for servers without pages
BuildSingleDashboardAlwaysPages(proxy, owner, zabbix_version) ==
    LET dashboard == generate_dashboard("Zabbix proxy health: " \o proxy.name, owner)
    IN  SetKey(dashboard, "pages",
               Append(dashboard["pages"], generate_dashboard_page(proxy)))

\* mutant: the fallback forgets del dashboard['pages']
BuildSingleDashboardKeepsPages(proxy, owner, zabbix_version) ==
    LET dashboard == generate_dashboard("Zabbix proxy health: " \o proxy.name, owner)
        dashboard_page == generate_dashboard_page(proxy)
    IN  IF VersionGE(zabbix_version, VERSION_SUPPORTING_PAGES)
        THEN SetKey(dashboard, "pages", Append(dashboard["pages"], dashboard_page))
        ELSE SetKey(dashboard, "widgets", dashboard_page["widgets"])

\* mutant: the builder wraps the page from another version on than the
\* update branch expects
BuildSingleDashboardPagesFromSix(proxy, owner, zabbix_version) ==
    LET dashboard == generate_dashboard("Zabbix proxy health: " \o proxy.name, owner)
        dashboard_page == generate_dashboard_page(proxy)
    IN  IF VersionGE(zabbix_version, <<6, 0, 0>>)
        THEN SetKey(dashboard, "pages", Append(dashboard["pages"], dashboard_page))
        ELSE DelKey(SetKey(dashboard, "widgets", dashboard_page["widgets"]), "pages")

\* main, lines 125-131: the dashboard of one proxy
BuildSingleDashboard(proxy, owner, zabbix_version) ==
    LET dashboard == generate_dashboard("Zabbix proxy health: " \o proxy.name, owner)
        dashboard_page == generate_dashboard_page(proxy)
    IN  IF SupportsPages(zabbix_version)
        THEN SetKey(dashboard, "pages", Append(dashboard["pages"], dashboard_page))
        ELSE DelKey(SetKey(dashboard, "widgets", dashboard_page["widgets"]), "pages")

\* main, lines 117-132: the list of dashboards to submit
BuildDashboards(mode, hosts, owner, zabbix_version) ==
    IF mode = PAGED
    THEN BuildPaged(hosts, owner)
    ELSE [k \in 1..Len(hosts) |-> BuildSingleDashboard(hosts[k], owner, zabbix_version)]

\* mutant: the update sends the whole document
UpdateArgsWholeDocument(id, dashboard, zabbix_version) ==
    SetKey(dashboard, "dashboardid", id)

\* main, lines 145-148: the keyword arguments of dashboard.update
UpdateArgs(id, dashboard, zabbix_version) ==
    IF SupportsPages(zabbix_version)
    THEN [dashboardid |-> id, pages |-> dashboard["pages"]]
    ELSE [dashboardid |-> id, widgets |-> dashboard["widgets"]]

(***************************************************************************)
(* The world a run of proxy_dashboard.py meets.                            *)
(***************************************************************************)
\* the hosts the server knows: display name and identifier
Host(k) == [name |-> "proxy-" \o ToString(k), hostid |-> ToString(10080 + k)]

\* the host lists a group may hold: runs of distinct hosts, in any rotation
HostLists ==
    { [j \in 1..n |-> Host(((s + j - 2) % MaxTargets) + 1)] :
        s \in 1..MaxTargets, n \in 0..MaxTargets }

\* the answers of hostgroup.get filtered by the group's name: no group, or
\* the one group with its hosts
GroupAnswers == {<<>>} \cup { <<[hosts |-> h]>> : h \in HostLists }

\* the dashboard ids a lookup by name may return
DashboardIds == {"31", "32"}

\* the userid the server reports for the session
OwnerId == "7"

\* the command line: credentials, --creation-mode, --force
ArgsSet ==
    [credentials : {"password", "token", "none"},
     creation_mode : {PAGED, SINGLE},
     force : BOOLEAN]

VARIABLES
    args,           \* parsed command line
    version,        \* zapi.version
    group,          \* what the server answers to hostgroup.get
    pc,             \* position of main
    use_api_token,  \* zapi.use_api_token
    authenticated,  \* zapi.is_authenticated
    creation_mode,  \* main's creation_mode
    proxies,        \* main's proxies
    dashboards,     \* main's dashboards
    idx,            \* position of the for loop over dashboards (1-based)
    d_id,           \* main's d_id
    calls,          \* the remote calls issued so far, in order
    log,            \* the log records written so far, in order
    exit_code       \* exit status of the process, -1 while it runs

dashVars == <<args, version, group, pc, use_api_token, authenticated, creation_mode,
              proxies, dashboards, idx, d_id, calls, log, exit_code>>

VARIABLES
    templates,      \* config['templates']
    sversion,       \* zapi.version of the syncer's session
    spc,            \* position of the syncer's main
    tidx,           \* position of the for loop over templates (1-based)
    t,              \* the content fetched for the current template
    scalls,         \* the remote calls and fetches issued so far, in order
    out             \* the lines printed so far, in order

syncVars == <<templates, sversion, spc, tidx, t, scalls, out>>

vars == <<dashVars, syncVars>>

Call(method, doc, arg, result) ==
    [method |-> method, doc |-> doc, arg |-> arg, result |-> result]

Log(level, doc, msg) == [level |-> level, doc |-> doc, msg |-> msg]

DashInit ==
    /\ args \in ArgsSet
    /\ version \in Versions
    /\ group \in GroupAnswers
    /\ pc = "session"
    /\ use_api_token = FALSE
    /\ authenticated = FALSE
    /\ creation_mode = "unset"
    /\ proxies = <<>>
    /\ dashboards = <<>>
    /\ idx = 0
    /\ d_id = "unset"
    /\ calls = <<>>
    /\ log = <<>>
    /\ exit_code = -1

\* an exception nothing catches: traceback, exit status 1
Uncaught(exc) ==
    /\ pc' = "crashed"
    /\ exit_code' = 1
    /\ log' = Append(log, Log("traceback", idx, exc))

\* main, lines 107-109: except RuntimeError -> critical, exit(1)
VersionFailure(msg) ==
    /\ pc' = "exited"
    /\ exit_code' = 1
    /\ log' = Append(log, Log("critical", 0, msg))

\* make_zabbix_session (lines 26-39) called from main line 105
MakeSession ==
    /\ UNCHANGED syncVars
    /\ pc = "session"
    /\ \/ /\ args.credentials = "password"
          /\ calls' = Append(calls, Call("user.login", 0, "password", "ok"))
          /\ authenticated' = TRUE
          /\ use_api_token' = FALSE
          /\ pc' = "mode"
          /\ UNCHANGED <<log, exit_code>>
       \/ /\ args.credentials = "token"
          /\ IF ~SupportsTokens(version)
             THEN /\ calls' = Append(calls, Call("apiinfo.version", 0, "", "ok"))
                  /\ VersionFailure("This version doesn't support API tokens!")
                  /\ UNCHANGED <<authenticated, use_api_token>>
             ELSE /\ calls' = Append(Append(calls,
                                 Call("apiinfo.version", 0, "", "ok")),
                                 Call("user.login", 0, "token", "ok"))
                  /\ authenticated' = TRUE
                  /\ use_api_token' = TRUE
                  /\ pc' = "mode"
                  /\ UNCHANGED <<log, exit_code>>
       \/ /\ args.credentials = "none"
          /\ pc' = "mode"
          /\ UNCHANGED <<calls, authenticated, use_api_token, log, exit_code>>
    /\ UNCHANGED <<args, version, group, creation_mode, proxies, dashboards, idx, d_id>>

\* main, lines 106-109
SelectCreationMode ==
    /\ UNCHANGED syncVars
    /\ pc = "mode"
    /\ LET m == select_creation_mode(args.creation_mode, version)
       IN  IF m = "RuntimeError"
           THEN /\ VersionFailure("This version doesn't support paged dashboards!")
                /\ UNCHANGED creation_mode
           ELSE /\ creation_mode' = m
                /\ pc' = "proxies"
                /\ UNCHANGED <<log, exit_code>>
    /\ UNCHANGED <<args, version, group, use_api_token, authenticated, proxies,
                   dashboards, idx, d_id, calls>>

\* mutant: an empty group is taken for a missing one
GroupMissingOrEmpty(answer) ==
    Len(answer) = 0 \/ Len(answer[1]["hosts"]) = 0

\* get_proxies, lines 158-162: [0] on the answer raises IndexError and the
\* function returns None exactly when the answer holds no group
GroupMissing(answer) == Len(answer) = 0

\* main, lines 111-115, with get_proxies (lines 157-163)
GetProxies ==
    /\ UNCHANGED syncVars
    /\ pc = "proxies"
    /\ IF ~authenticated
       THEN \* the server refuses a call without a session: ZabbixAPIException
            /\ calls' = Append(calls, Call("hostgroup.get", 0, "", "error"))
            /\ Uncaught("ZabbixAPIException")
            /\ UNCHANGED proxies
       ELSE /\ calls' = Append(calls, Call("hostgroup.get", 0, "", "ok"))
            /\ IF GroupMissing(group)
               THEN \* proxies is None: exit(2)
                    /\ log' = Append(log, Log("error", 0, "Host group doesn't exist!"))
                    /\ pc' = "exited"
                    /\ exit_code' = 2
                    /\ UNCHANGED proxies
               ELSE /\ proxies' = group[1]["hosts"]
                    /\ log' = IF Len(group[1]["hosts"]) = 0
                              THEN Append(log, Log("warning", 0, "Host group is empty"))
                              ELSE log
                    /\ pc' = "build"
                    /\ UNCHANGED exit_code
    /\ UNCHANGED <<args, version, group, use_api_token, authenticated, creation_mode,
                   dashboards, idx, d_id>>

\* main, lines 117-132, with get_user_id (lines 42-48)
GenerateDashboards ==
    /\ UNCHANGED syncVars
    /\ pc = "build"
    /\ calls' = Append(calls,
                  Call(IF use_api_token THEN "token.get" ELSE "user.checkAuthentication",
                       0, "", "ok"))
    /\ dashboards' = BuildDashboards(creation_mode, proxies, OwnerId, version)
    /\ idx' = 1
    /\ pc' = "create"
    /\ UNCHANGED <<args, version, group, use_api_token, authenticated, creation_mode,
                   proxies, d_id, log, exit_code>>

\* mutant: the force flag is not consulted
OnCreateFailureIgnoresForce(force, result) == "lookup"

\* what the except clause of line 139 does with a failed create (lines 140-151):
\* "lookup" to force the update, "next" to log the error and go on
OnCreateFailure(force, result) == IF force THEN "lookup" ELSE "next"

\* the results of a create call: done, refused because the name exists,
\* refused for another reason (both refusals are a ZabbixAPIException)
CreateResults == {"ok", "Conflict", "RemoteError"}

\* main, lines 134-141 and 150-151: one pass of the loop up to the create call
CreateDashboard ==
    /\ UNCHANGED syncVars
    /\ pc = "create"
    /\ idx <= Len(dashboards)
    /\ LET dashboard == dashboards[idx]
           d_name == dashboard["name"]
       IN \E result \in CreateResults :
            /\ calls' = Append(calls, Call("dashboard.create", idx, dashboard, result))
            /\ IF result = "ok"
               THEN /\ log' = Append(log, Log("info", idx, "Created: " \o d_name))
                    /\ idx' = idx + 1
                    /\ pc' = "create"
               ELSE IF OnCreateFailure(args.force, result) = "lookup"
               THEN /\ log' = Append(log, Log("info", idx, "Forcing update of " \o d_name))
                    /\ pc' = "lookup"
                    /\ idx' = idx
               ELSE /\ log' = Append(log, Log("error", idx, result))
                    /\ idx' = idx + 1
                    /\ pc' = "create"
    /\ UNCHANGED <<args, version, group, use_api_token, authenticated, creation_mode,
                   proxies, dashboards, d_id, exit_code>>

\* main, lines 143-144: dashboard.get by name, first element of the answer
GetExistingDashboard ==
    /\ UNCHANGED syncVars
    /\ pc = "lookup"
    /\ LET d_name == dashboards[idx]["name"]
           filter == [name |-> d_name]
       IN \/ \E id \in DashboardIds :
               /\ calls' = Append(calls, Call("dashboard.get", idx, filter, id))
               /\ d_id' = id
               /\ pc' = "update"
               /\ UNCHANGED <<log, exit_code>>
          \/ \* the answer is empty: existing_dashboard[0] raises IndexError
             /\ calls' = Append(calls, Call("dashboard.get", idx, filter, "NotFound"))
             /\ Uncaught("IndexError")
             /\ UNCHANGED d_id
          \/ \* the call fails: ZabbixAPIException inside the except clause
             /\ calls' = Append(calls, Call("dashboard.get", idx, filter, "RemoteError"))
             /\ Uncaught("ZabbixAPIException")
             /\ UNCHANGED d_id
    /\ UNCHANGED <<args, version, group, use_api_token, authenticated, creation_mode,
                   proxies, dashboards, idx>>

\* main, lines 145-149: dashboard.update with the pages or the widgets
UpdateDashboard ==
    /\ UNCHANGED syncVars
    /\ pc = "update"
    /\ LET dashboard == dashboards[idx]
           d_name == dashboard["name"]
           kwargs == UpdateArgs(d_id, dashboard, version)
       IN \/ /\ calls' = Append(calls, Call("dashboard.update", idx, kwargs, "ok"))
             /\ log' = Append(log, Log("info", idx, "Updated: " \o d_name))
             /\ idx' = idx + 1
             /\ pc' = "create"
             /\ UNCHANGED exit_code
          \/ /\ calls' = Append(calls, Call("dashboard.update", idx, kwargs, "RemoteError"))
             /\ Uncaught("ZabbixAPIException")
             /\ UNCHANGED idx
    /\ UNCHANGED <<args, version, group, use_api_token, authenticated, creation_mode,
                   proxies, dashboards, d_id>>

\* main, lines 153-154, after the loop: logout of a password session
Logout ==
    /\ UNCHANGED syncVars
    /\ pc = "create"
    /\ idx > Len(dashboards)
    /\ calls' = IF authenticated /\ ~use_api_token
                THEN Append(calls, Call("user.logout", 0, "", "ok"))
                ELSE calls
    /\ pc' = "done"
    /\ exit_code' = 0
    /\ UNCHANGED <<args, version, group, use_api_token, authenticated, creation_mode,
                   proxies, dashboards, idx, d_id, log>>

Next ==
    \/ MakeSession
    \/ SelectCreationMode
    \/ GetProxies
    \/ GenerateDashboards
    \/ CreateDashboard
    \/ GetExistingDashboard
    \/ UpdateDashboard
    \/ Logout


(***************************************************************************)
(* template_syncer.py                                                      *)
(***************************************************************************)
\* a url is a sequence of characters
UpperCase == <<"A","B","C","D","E","F","G","H","I","J","K","L","M",
               "N","O","P","Q","R","S","T","U","V","W","X","Y","Z">>
LowerCase == <<"a","b","c","d","e","f","g","h","i","j","k","l","m",
               "n","o","p","q","r","s","t","u","v","w","x","y","z">>

\* str.lower() on one character
LowerChar(c) ==
    IF \E k \in 1..Len(UpperCase) : UpperCase[k] = c
    THEN LowerCase[CHOOSE k \in 1..Len(UpperCase) : UpperCase[k] = c]
    ELSE c

\* str.lower()
Lower(url) == [k \in 1..Len(url) |-> LowerChar(url[k])]

\* str.endswith(suffix)
EndsWith(str, suffix) ==
    /\ Len(str) >= Len(suffix)
    /\ SubSeq(str, Len(str) - Len(suffix) + 1, Len(str)) = suffix

\* infer_type(url): the format, or "ValueError" when it raises
infer_type(url) ==
    LET lower_url == Lower(url)
    IN  IF EndsWith(lower_url, <<"y","a","m","l">>) \/ EndsWith(lower_url, <<"y","m","l">>)
        THEN "yaml"
        ELSE IF EndsWith(lower_url, <<"x","m","l">>)
        THEN "xml"
        ELSE IF EndsWith(lower_url, <<"j","s","o","n">>)
        THEN "xml"
        ELSE "ValueError"

CreateAndUpdate == [createMissing |-> TRUE, updateExisting |-> TRUE]

\* upload_template, lines 21-57: the rules of every version
BaseRules ==
    [discoveryRules |-> CreateAndUpdate,
     graphs |-> CreateAndUpdate,
     groups |-> CreateAndUpdate,
     httptests |-> CreateAndUpdate,
     items |-> CreateAndUpdate,
     templateLinkage |-> [createMissing |-> TRUE],
     templates |-> CreateAndUpdate,
     templateDashboards |-> CreateAndUpdate,
     triggers |-> CreateAndUpdate]

\* mutant: the threshold version itself is refused
SupportsValueMapsStrict(zabbix_version) == VersionLess(<<5, 4, 0>>, zabbix_version)

\* zapi.version >= semantic_version.Version('5.4.0') (line 58)
SupportsValueMaps(zabbix_version) == VersionGE(zabbix_version, <<5, 4, 0>>)

\* upload_template, lines 21-62: the rules sent with the import
ImportRules(zabbix_version) ==
    IF SupportsValueMaps(zabbix_version)
    THEN SetKey(BaseRules, "valueMaps", CreateAndUpdate)
    ELSE BaseRules

\* the template references a configuration may list
TemplateUrls ==
    { <<"a",".","y","a","m","l">>,
      <<"f","o","o",".","Y","M","L">>,
      <<"b","a","r",".","X","M","L">>,
      <<"c",".","x","m","l">>,
      <<"b","a","z",".","t","x","t">>,
      <<"d",".","j","s","o","n">>,
      <<"e",".","J","s","o","n">>,
      <<"y","a","m","l",".","g","z">>,
      <<"l","i","s","t","x","m","l">>,
      <<"r","a","w">> }

\* the lists of templates a configuration may hold
TemplateLists ==
    UNION { [1..n -> TemplateUrls] : n \in 0..MaxTemplates }

SCall(method, tpl, arg, result) ==
    [method |-> method, tpl |-> tpl, arg |-> arg, result |-> result]

SyncInit ==
    /\ templates \in TemplateLists
    /\ sversion \in Versions
    /\ spc = "login"
    /\ tidx = 0
    /\ t = "unset"
    /\ scalls = <<>>
    /\ out = <<>>

\* main, line 97
SyncLogin ==
    /\ UNCHANGED dashVars
    /\ spc = "login"
    /\ scalls' = Append(scalls, SCall("user.login", 0, "token", "ok"))
    /\ tidx' = 1
    /\ spc' = "fetch"
    /\ UNCHANGED <<templates, sversion, t, out>>

\* main, lines 98-100, with get_upstream_template (lines 15-17)
FetchTemplate ==
    /\ UNCHANGED dashVars
    /\ spc = "fetch"
    /\ tidx <= Len(templates)
    /\ out' = Append(out, <<"Importing", tidx>>)
    /\ \/ /\ scalls' = Append(scalls, SCall("requests.get", tidx, templates[tidx], "ok"))
          /\ t' = <<"content of", templates[tidx]>>
          /\ spc' = "import"
       \/ \* requests.get raises: nothing catches it
          /\ scalls' = Append(scalls,
                          SCall("requests.get", tidx, templates[tidx], "NetworkError"))
          /\ spc' = "crashed"
          /\ UNCHANGED t
    /\ UNCHANGED <<templates, sversion, tidx>>

\* main, lines 101-105, with upload_template (lines 20-70)
ImportTemplate ==
    /\ UNCHANGED dashVars
    /\ spc = "import"
    /\ LET t_type == infer_type(templates[tidx])
       IN  IF t_type = "ValueError"
           THEN /\ out' = Append(out, <<"Skipping due to error", tidx>>)
                /\ UNCHANGED scalls
           ELSE \E result \in {"ok", "ImportError"} :
                /\ scalls' = Append(scalls,
                     SCall("configuration.import", tidx,
                           [confformat |-> t_type,
                            rules |-> ImportRules(sversion),
                            source |-> t],
                           result))
                /\ out' = IF result = "ok"
                          THEN out
                          ELSE Append(out, <<"Zabbix upload failed", tidx>>)
    /\ tidx' = tidx + 1
    /\ spc' = "fetch"
    /\ UNCHANGED <<templates, sversion, t>>

\* main, line 96: the with block ends after the last template
SyncFinish ==
    /\ UNCHANGED dashVars
    /\ spc = "fetch"
    /\ tidx > Len(templates)
    /\ spc' = "done"
    /\ UNCHANGED <<templates, sversion, tidx, t, scalls, out>>

SyncerNext ==
    \/ SyncLogin
    \/ FetchTemplate
    \/ ImportTemplate
    \/ SyncFinish

(***************************************************************************)
(* Specifications: one program runs, the other has not been started.       *)
(***************************************************************************)
SyncIdle ==
    /\ templates = <<>>
    /\ sversion = <<0, 0, 0>>
    /\ spc = "off"
    /\ tidx = 0
    /\ t = "unset"
    /\ scalls = <<>>
    /\ out = <<>>

DashIdle ==
    /\ args = [credentials |-> "none", creation_mode |-> PAGED, force |-> FALSE]
    /\ version = <<0, 0, 0>>
    /\ group = <<>>
    /\ pc = "off"
    /\ use_api_token = FALSE
    /\ authenticated = FALSE
    /\ creation_mode = "unset"
    /\ proxies = <<>>
    /\ dashboards = <<>>
    /\ idx = 0
    /\ d_id = "unset"
    /\ calls = <<>>
    /\ log = <<>>
    /\ exit_code = -1

Init == DashInit /\ SyncIdle

Spec == Init /\ [][Next]_vars

SyncerInit == SyncInit /\ DashIdle

SyncerSpec == SyncerInit /\ [][SyncerNext]_vars

\* either program runs
ToolsInit == Init \/ SyncerInit

ToolsNext ==
    \/ MakeSession
    \/ SelectCreationMode
    \/ GetProxies
    \/ GenerateDashboards
    \/ CreateDashboard
    \/ GetExistingDashboard
    \/ UpdateDashboard
    \/ Logout
    \/ SyncLogin
    \/ FetchTemplate
    \/ ImportTemplate
    \/ SyncFinish

ToolsSpec == ToolsInit /\ [][ToolsNext]_vars


(***************************************************************************)
(* Reading the traces of a run of proxy_dashboard.py.                      *)
(***************************************************************************)
Terminated == pc \in {"done", "exited", "crashed"}

\* the loop over the dashboards has been entered
LoopEntered == idx >= 1

\* the positions in calls of the calls of one method for document k
CallsFor(k, method) ==
    { j \in 1..Len(calls) : calls[j].method = method /\ calls[j].doc = k }

\* the positions in calls of the calls of one method
CallsOf(method) == { j \in 1..Len(calls) : calls[j].method = method }

\* the results of the create calls, in the order they were issued
CreateResultsSoFar ==
    LET RECURSIVE Pick(_)
        Pick(j) == IF j > Len(calls) THEN <<>>
                   ELSE IF calls[j].method = "dashboard.create"
                        THEN <<calls[j].result>> \o Pick(j + 1)
                        ELSE Pick(j + 1)
    IN  Pick(1)

\* what the log records about document k: "Created", "Updated", "Error" (an
\* error-level record, the way a skipped or failed document is recorded) or
\* "None" (nothing recorded)
Outcome(k) ==
    LET d_name == dashboards[k]["name"]
        Has(level, msg) ==
            \E j \in 1..Len(log) :
                log[j].doc = k /\ log[j].level = level /\ log[j].msg = msg
    IN  IF Has("info", "Created: " \o d_name) THEN "Created"
        ELSE IF Has("info", "Updated: " \o d_name) THEN "Updated"
        ELSE IF \E j \in 1..Len(log) : log[j].doc = k /\ log[j].level = "error"
             THEN "Error"
        ELSE "None"

Outcomes == [k \in 1..Len(dashboards) |-> Outcome(k)]

(***************************************************************************)
(* C1 (as claimed): a failed create, lookup or update of one document is   *)
(* recorded for that document only and never aborts the batch: when the    *)
(* run ends after entering the loop, every document of the batch has had   *)
(* its create call.                                                        *)
(* The code violates it: the lookup and the update run inside the except   *)
(* clause, where nothing catches what they raise.                          *)
(***************************************************************************)
C1_FailureNeverAbortsBatch ==
    (LoopEntered /\ Terminated) =>
        \A k \in 1..Len(dashboards) : CallsFor(k, "dashboard.create") # {}

(***************************************************************************)
(* C2: with force=false a create call that reports Conflict gets an        *)
(* error-level record (the skipped outcome), no lookup and no update call  *)
(* is issued for that document, the loop goes on to the next document and  *)
(* ends with every document attempted once; a batch of three whose create  *)
(* results are ok, Conflict, ok ends with outcomes Created, Error, Created.*)
(***************************************************************************)
C2_ConflictWithoutForceSkips ==
    (~args.force /\ LoopEntered) =>
        /\ pc \in {"create", "done"}
        /\ \A j \in CallsOf("dashboard.create") :
              calls[j].result = "Conflict" =>
                /\ CallsFor(calls[j].doc, "dashboard.get") = {}
                /\ CallsFor(calls[j].doc, "dashboard.update") = {}
                /\ Outcome(calls[j].doc) = "Error"
                /\ idx > calls[j].doc
        /\ \A k \in 1..Len(dashboards) :
              Cardinality(CallsFor(k, "dashboard.create")) = (IF k < idx THEN 1 ELSE 0)
        /\ pc = "done" => idx = Len(dashboards) + 1
        /\ (pc = "done" /\ CreateResultsSoFar = <<"ok", "Conflict", "ok">>)
              => Outcomes = <<"Created", "Error", "Created">>

C2_Witness ==
    /\ ~args.force
    /\ pc = "done"
    /\ Len(dashboards) = 3
    /\ CreateResultsSoFar = <<"ok", "Conflict", "ok">>
    /\ Outcomes = <<"Created", "Error", "Created">>

(***************************************************************************)
(* C3: with force=true a create call that reports Conflict is followed by  *)
(* a lookup filtered by exactly the name of that document; a lookup that   *)
(* returns an id is followed by one update call against that id, carrying  *)
(* besides the id only the pages of the document (version >= 5.4.0) or     *)
(* only its widgets (version < 5.4.0); when that update succeeds the       *)
(* document is recorded as Updated.                                        *)
(***************************************************************************)
C3_ForcedUpdateCarriesOnlyLayout ==
    args.force =>
        /\ \A j \in CallsOf("dashboard.create") :
              (calls[j].result = "Conflict" /\ j < Len(calls)) =>
                /\ calls[j + 1].method = "dashboard.get"
                /\ calls[j + 1].doc = calls[j].doc
                /\ calls[j + 1].arg = [name |-> calls[j].arg["name"]]
        /\ \A j \in CallsOf("dashboard.get") :
              (calls[j].result \in DashboardIds /\ j < Len(calls)) =>
                /\ calls[j + 1].method = "dashboard.update"
                /\ calls[j + 1].doc = calls[j].doc
                /\ calls[j + 1].arg["dashboardid"] = calls[j].result
        /\ \A j \in CallsOf("dashboard.update") :
              LET field == IF VersionLess(version, <<5, 4, 0>>) THEN "widgets" ELSE "pages"
                  k == calls[j].doc
              IN  /\ calls[j - 1].method = "dashboard.get"
                  /\ DOMAIN calls[j].arg = {"dashboardid", field}
                  /\ calls[j].arg[field] = dashboards[k][field]
                  /\ Cardinality(CallsFor(k, "dashboard.update")) = 1
                  /\ calls[j].result = "ok" => Outcome(k) = "Updated"

C3_Witness ==
    /\ args.force
    /\ VersionLess(version, <<5, 4, 0>>)
    /\ \E j \in CallsOf("dashboard.update") :
          /\ calls[j].result = "ok"
          /\ calls[j].doc = 2
          /\ calls[j - 2].result = "Conflict"
          /\ DOMAIN calls[j].arg = {"dashboardid", "widgets"}
          /\ Outcome(2) = "Updated"

(***************************************************************************)
(* C4 (as claimed): a create call that fails with a remote error other     *)
(* than Conflict is recorded as an error for that document and no lookup   *)
(* and no update call is issued for it, force or not.                      *)
(* The code violates it: with force=true every ZabbixAPIException of the   *)
(* create call enters the lookup-and-update branch.                        *)
(***************************************************************************)
C4_OnlyConflictDrivesUpdate ==
    \A j \in CallsOf("dashboard.create") :
        calls[j].result = "RemoteError" =>
            /\ CallsFor(calls[j].doc, "dashboard.get") = {}
            /\ CallsFor(calls[j].doc, "dashboard.update") = {}
            /\ Outcome(calls[j].doc) = "Error"

(***************************************************************************)
(* C5: when paged mode is requested and the server version is below 5.4.0  *)
(* the run ends with a critical record and exit code 1 before anything is  *)
(* built: no group lookup, no create, no lookup by name and no update call *)
(* is ever issued and no dashboard exists.                                 *)
(***************************************************************************)
C5_PagedBelowThresholdFailsFirst ==
    (args.creation_mode = "paged" /\ VersionLess(version, <<5, 4, 0>>)) =>
        /\ \A j \in 1..Len(calls) :
              calls[j].method \notin {"hostgroup.get", "dashboard.create",
                                      "dashboard.get", "dashboard.update"}
        /\ dashboards = <<>>
        /\ proxies = <<>>
        /\ pc \in {"session", "mode", "exited"}
        /\ pc = "exited" =>
              /\ exit_code = 1
              /\ log[Len(log)].level = "critical"

C5_Witness ==
    /\ args.creation_mode = "paged"
    /\ args.credentials = "password"
    /\ version = <<5, 3, 9>>
    /\ Len(group) = 1
    /\ pc = "exited"
    /\ exit_code = 1
    /\ log = <<Log("critical", 0, "This version doesn't support paged dashboards!")>>

(***************************************************************************)
(* C6: in single mode the dashboards are one per proxy, in the order of    *)
(* the proxies, each named "Zabbix proxy health: <proxy name>"; below      *)
(* 5.4.0 a dashboard has no pages key and its widgets are the widgets of   *)
(* the page of its proxy; from 5.4.0 on it has a pages key holding exactly *)
(* one page, the page of its proxy.                                        *)
(***************************************************************************)
C6_SingleModeOnePerTarget ==
    (creation_mode = "single" /\ LoopEntered) =>
        /\ proxies = group[1]["hosts"]
        /\ Len(dashboards) = Len(proxies)
        /\ \A k \in 1..Len(dashboards) :
              /\ dashboards[k]["name"] = "Zabbix proxy health: " \o proxies[k].name
              /\ IF VersionLess(version, <<5, 4, 0>>)
                 THEN /\ "pages" \notin DOMAIN dashboards[k]
                      /\ "widgets" \in DOMAIN dashboards[k]
                      /\ dashboards[k]["widgets"] = generate_dashboard_page(proxies[k]).widgets
                 ELSE /\ "pages" \in DOMAIN dashboards[k]
                      /\ Len(dashboards[k]["pages"]) = 1
                      /\ dashboards[k]["pages"][1] = generate_dashboard_page(proxies[k])

C6_Witness ==
    /\ creation_mode = "single"
    /\ LoopEntered
    /\ version = <<5, 3, 9>>
    /\ Len(dashboards) = 3
    /\ dashboards[1]["name"] = "Zabbix proxy health: proxy-2"
    /\ "pages" \notin DOMAIN dashboards[3]

(***************************************************************************)
(* C7: every document handed to dashboard.create has exactly one of the    *)
(* top-level keys pages and widgets.                                       *)
(***************************************************************************)
C7_NeverPagesAndWidgets ==
    \A j \in CallsOf("dashboard.create") :
        ("pages" \in DOMAIN calls[j].arg) # ("widgets" \in DOMAIN calls[j].arg)

C7_Witness ==
    \E i, j \in CallsOf("dashboard.create") :
        /\ i # j
        /\ "widgets" \in DOMAIN calls[i].arg
        /\ "pages" \notin DOMAIN calls[j].arg

(***************************************************************************)
(* C8: in paged mode (which only a version >= 5.4.0 allows) exactly one    *)
(* dashboard is built for the whole group and submitted once, whatever the *)
(* number of proxies; it is named "Zabbix proxies health" and holds one    *)
(* page per proxy, in the order of the proxies, each named after its proxy *)
(* and holding exactly six widgets.                                        *)
(***************************************************************************)
C8_PagedModeOneDocument ==
    (creation_mode = "paged" /\ LoopEntered) =>
        /\ ~VersionLess(version, <<5, 4, 0>>)
        /\ proxies = group[1]["hosts"]
        /\ Len(dashboards) = 1
        /\ dashboards[1]["name"] = "Zabbix proxies health"
        /\ Len(dashboards[1]["pages"]) = Len(proxies)
        /\ \A k \in 1..Len(proxies) :
              /\ dashboards[1]["pages"][k].name = proxies[k].name
              /\ Len(dashboards[1]["pages"][k].widgets) = 6
        /\ Cardinality(CallsOf("dashboard.create")) = (IF pc = "create" /\ idx = 1 THEN 0 ELSE 1)
        /\ \A j \in CallsOf("dashboard.create") : calls[j].arg = dashboards[1]

C8_Witness ==
    /\ creation_mode = "paged"
    /\ pc = "done"
    /\ Len(proxies) = 3
    /\ Len(dashboards) = 1
    /\ Len(dashboards[1]["pages"]) = 3
    /\ dashboards[1]["pages"][1].name = "proxy-3"
    /\ dashboards[1]["pages"][2].name = "proxy-1"
    /\ Cardinality(CallsOf("dashboard.create")) = 1


(***************************************************************************)
(* Reading the traces of a run of template_syncer.py.                      *)
(***************************************************************************)
ImportsFor(k) ==
    { j \in 1..Len(scalls) :
        scalls[j].method = "configuration.import" /\ scalls[j].tpl = k }

Imports == { j \in 1..Len(scalls) : scalls[j].method = "configuration.import" }

\* the format the specification assigns to a reference
ClaimedFormat(url) ==
    LET lower_url == Lower(url)
    IN  IF \/ EndsWith(lower_url, <<".","y","a","m","l">>)
           \/ EndsWith(lower_url, <<".","y","m","l">>)
        THEN "yaml"
        ELSE IF EndsWith(lower_url, <<".","x","m","l">>)
        THEN "xml"
        ELSE "UnrecognizedFormat"

(***************************************************************************)
(* C9 (as claimed): a template whose reference ends, in any case, in .yaml *)
(* or .yml is imported as yaml, one ending in .xml as xml, and a template  *)
(* with any other suffix is skipped with no import call issued for it.     *)
(* The code violates it: a reference ending in json is imported as xml     *)
(* (and the suffixes are matched without their dot).                       *)
(***************************************************************************)
C9_FormatBySuffixElseSkipped ==
    \A k \in 1..Len(templates) :
        (spc # "crashed" /\ k < tidx) =>
            IF ClaimedFormat(templates[k]) = "UnrecognizedFormat"
            THEN /\ ImportsFor(k) = {}
                 /\ \E j \in 1..Len(out) : out[j] = <<"Skipping due to error", k>>
            ELSE /\ ImportsFor(k) # {}
                 /\ \A j \in ImportsFor(k) :
                       scalls[j].arg.confformat = ClaimedFormat(templates[k])

(***************************************************************************)
(* C10: the rules sent with an import hold a valueMaps section, with       *)
(* createMissing and updateExisting both true, exactly when the server     *)
(* version is >= 5.4.0 (so at 5.4.0 and not at 5.3.9); the other nine      *)
(* sections and their flags are the same for every version.                *)
(***************************************************************************)
C10_ValueMapsIffSupported ==
    \A j \in Imports :
        LET rules == scalls[j].arg.rules
            both == [createMissing |-> TRUE, updateExisting |-> TRUE]
        IN  /\ ("valueMaps" \in DOMAIN rules) <=> ~VersionLess(sversion, <<5, 4, 0>>)
            /\ sversion = <<5, 4, 0>> => "valueMaps" \in DOMAIN rules
            /\ sversion = <<5, 3, 9>> => "valueMaps" \notin DOMAIN rules
            /\ "valueMaps" \in DOMAIN rules => rules["valueMaps"] = both
            /\ DOMAIN rules \ {"valueMaps"} =
                  {"discoveryRules", "graphs", "groups", "httptests", "items",
                   "templateLinkage", "templates", "templateDashboards", "triggers"}
            /\ \A section \in DOMAIN rules \ {"valueMaps", "templateLinkage"} :
                  rules[section] = both
            /\ rules["templateLinkage"] = [createMissing |-> TRUE]

C10_Witness ==
    /\ sversion = <<5, 4, 0>>
    /\ spc = "done"
    /\ \E j \in Imports :
          /\ scalls[j].result = "ok"
          /\ scalls[j].arg.rules["valueMaps"] = [createMissing |-> TRUE, updateExisting |-> TRUE]


(***************************************************************************)
(* C11 (as claimed): a failure on one template (a NetworkError while its   *)
(* content is fetched, an unrecognized format, a rejected import) is a     *)
(* failure of that template only: when the run ends, every template of the *)
(* configured list has been fetched.                                       *)
(* The code violates it: requests.get is called outside the try block and  *)
(* only ValueError is caught, so a failed fetch ends the run.              *)
(***************************************************************************)
C11_TemplateFailureIsLocal ==
    spc \in {"done", "crashed"} =>
        \A k \in 1..Len(templates) :
            \E j \in 1..Len(scalls) :
                scalls[j].method = "requests.get" /\ scalls[j].tpl = k

(***************************************************************************)
(* C12 (as claimed): a run that logged in with username and password and   *)
(* entered the loop over the dashboards ends with the logout call as its   *)
(* last remote call, whatever happened to the documents; a run that logged *)
(* in with a token never calls logout.                                     *)
(* The code violates the first part: the exception of a failed lookup or   *)
(* update (C1) leaves main before line 153 is reached.                     *)
(***************************************************************************)
C12_PasswordSessionLoggedOut ==
    /\ (args.credentials = "password" /\ LoopEntered /\ Terminated) =>
          calls[Len(calls)].method = "user.logout"
    /\ args.credentials = "token" => CallsOf("user.logout") = {}


(***************************************************************************)
(* C13: when the server knows no group of the given name, the run whose    *)
(* group lookup is answered ends with exit code 2, and no dashboard is     *)
(* built or submitted: no create, lookup by name or update call is issued. *)
(* When the group exists, empty or not, the run never exits with code 2.   *)
(***************************************************************************)
C13_MissingGroupExitsTwo ==
    /\ Len(group) = 0 =>
          /\ dashboards = <<>>
          /\ \A j \in 1..Len(calls) :
                calls[j].method \notin {"dashboard.create", "dashboard.get",
                                        "dashboard.update"}
          /\ (\E j \in CallsOf("hostgroup.get") : calls[j].result = "ok") =>
                /\ pc = "exited"
                /\ exit_code = 2
    /\ Len(group) = 1 => exit_code # 2
    /\ (Len(group) = 1 /\ Len(group[1]["hosts"]) = 0 /\ pc = "done") => exit_code = 0

C13_Witness ==
    /\ Len(group) = 0
    /\ pc = "exited"
    /\ exit_code = 2
    /\ calls[Len(calls)].method = "hostgroup.get"
    /\ dashboards = <<>>


\* the documents handed to dashboard.create, in the order of the calls
CreatedDocuments ==
    LET RECURSIVE Pick(_)
        Pick(j) == IF j > Len(calls) THEN <<>>
                   ELSE IF calls[j].method = "dashboard.create"
                        THEN <<calls[j].arg>> \o Pick(j + 1)
                        ELSE Pick(j + 1)
    IN  Pick(1)

\* the calls of the loop come document by document, in the order of the
\* batch, with at most one create, one lookup and one update per document
CallsInBatchOrder ==
    /\ \A i, j \in 1..Len(calls) :
          (i < j /\ calls[i].doc >= 1 /\ calls[j].doc >= 1) => calls[i].doc <= calls[j].doc
    /\ \A k \in 1..Len(dashboards) :
          /\ Cardinality(CallsFor(k, "dashboard.create")) <= 1
          /\ Cardinality(CallsFor(k, "dashboard.get")) <= 1
          /\ Cardinality(CallsFor(k, "dashboard.update")) <= 1

(***************************************************************************)
(* C14 (as claimed): when a run that entered the loop ends, the documents  *)
(* handed to dashboard.create are exactly the built documents, in their    *)
(* order, one create per document; no document has more than one lookup or *)
(* more than one update; the calls of a document all come before the calls *)
(* of the next one.                                                        *)
(* The code violates the first part: after a failed lookup or update (C1)  *)
(* the later documents get no create call at all.                          *)
(***************************************************************************)
C14_EveryCallOnceInOrder ==
    /\ CallsInBatchOrder
    /\ (LoopEntered /\ Terminated) => CreatedDocuments = dashboards


\* a version strictly below 5.4.0, spelled out on its components
Below540(v) == v[1] < 5 \/ (v[1] = 5 /\ v[2] < 4)

\* the login call with the token has been issued
TokenLoginCalled ==
    \E j \in CallsOf("user.login") : calls[j].arg = "token"

(***************************************************************************)
(* C15: the three version gates sit exactly at 5.4.0.  A token login is    *)
(* made at 5.4.0 and above; strictly below, the run ends with exit code 1  *)
(* and a critical record without any login call.  Paged mode is selected   *)
(* at 5.4.0 and above and refused with exit code 1 strictly below.  The    *)
(* import rules hold the valueMaps section at 5.4.0 and above and not      *)
(* strictly below.                                                         *)
(***************************************************************************)
C15_GatesExactAtThreshold ==
    /\ (args.credentials = "token" /\ pc \notin {"off", "session"}) =>
          IF Below540(version)
          THEN /\ pc = "exited"
               /\ exit_code = 1
               /\ CallsOf("user.login") = {}
               /\ log = <<Log("critical", 0, "This version doesn't support API tokens!")>>
          ELSE /\ TokenLoginCalled
               /\ use_api_token
               /\ \A j \in 1..Len(log) : log[j].level # "critical"
    /\ (/\ args.creation_mode = "paged"
        /\ pc \notin {"off", "session", "mode"}
        /\ ~(args.credentials = "token" /\ Below540(version))) =>
          IF Below540(version)
          THEN /\ pc = "exited"
               /\ exit_code = 1
               /\ creation_mode = "unset"
          ELSE /\ creation_mode = "paged"
               /\ \A j \in 1..Len(log) : log[j].level # "critical"
    /\ \A j \in Imports :
          ("valueMaps" \in DOMAIN scalls[j].arg.rules) <=> ~Below540(sversion)

C15_Witness ==
    /\ args.credentials = "token"
    /\ args.creation_mode = "paged"
    /\ version = <<5, 4, 0>>
    /\ pc = "done"
    /\ TokenLoginCalled
    /\ creation_mode = "paged"


\* the pages the run has built, each with the proxy it was built for
BuiltPages ==
    IF creation_mode = "paged"
    THEN { <<proxies[k], dashboards[1]["pages"][k]["widgets"]>> : k \in 1..Len(proxies) }
    ELSE { <<proxies[k],
             IF "pages" \in DOMAIN dashboards[k]
             THEN dashboards[k]["pages"][1]["widgets"]
             ELSE dashboards[k]["widgets"]>> : k \in 1..Len(dashboards) }

\* the value of the field of that name in a widget, as a set (empty: no such field)
FieldValues(widget, name) ==
    { widget.fields[j].value :
        j \in { i \in 1..Len(widget.fields) : widget.fields[i].name = name } }

\* the hosts the server knows
KnownHosts == { Host(k) : k \in 1..MaxTargets }

\* the dashboards have just been built: nothing has been submitted yet
JustBuilt == pc = "create" /\ idx = 1 /\ CallsOf("dashboard.create") = {}

(***************************************************************************)
(* C16: a page built for a proxy references only that proxy.  It holds     *)
(* five graph widgets and one problems widget; every metric series of a    *)
(* graph widget (ds.items.N.0) is bound by ds.hosts.N.0 to the name of the *)
(* proxy, the problems widget filters hostids by the id of the proxy, and  *)
(* no field of any widget of the page holds the name or the id of another  *)
(* host.  The pages are looked at when the dashboards have been built; the *)
(* documents submitted afterwards are those dashboards.                    *)
(***************************************************************************)
C16_PageReferencesOnlyItsTarget ==
    /\ \A j \in CallsOf("dashboard.create") : calls[j].arg = dashboards[calls[j].doc]
    /\ JustBuilt =>
        \A page \in BuiltPages :
            LET proxy == page[1]
                widgets == page[2]
                graphs == { j \in 1..Len(widgets) : widgets[j].type = "svggraph" }
                problems == { j \in 1..Len(widgets) : widgets[j].type = "problems" }
            IN  /\ Cardinality(graphs) = 5
                /\ Cardinality(problems) = 1
                /\ \A j \in graphs :
                      /\ FieldValues(widgets[j], "ds.hosts.0.0") = {proxy.name}
                      /\ \A n \in {"1", "2"} :
                            FieldValues(widgets[j], "ds.items." \o n \o ".0") # {} =>
                                FieldValues(widgets[j], "ds.hosts." \o n \o ".0") = {proxy.name}
                      /\ FieldValues(widgets[j], "hostids") = {}
                /\ \A j \in problems :
                      FieldValues(widgets[j], "hostids") = {proxy.hostid}
                /\ \A j \in 1..Len(widgets) : \A i \in 1..Len(widgets[j].fields) :
                      \A other \in KnownHosts \ {proxy} :
                          widgets[j].fields[i].value \notin {other.name, other.hostid}

C16_Witness ==
    /\ JustBuilt
    /\ creation_mode = "paged"
    /\ Len(proxies) = 3
    /\ proxies[2] = Host(3)
    /\ FieldValues(dashboards[1]["pages"][2]["widgets"][6], "hostids") = {"10083"}
    /\ FieldValues(dashboards[1]["pages"][2]["widgets"][1], "ds.hosts.2.0") = {"proxy-3"}


\* the field the update branch sends for this server version: the keyword
\* argument, besides the id, of the update of a document that has both keys
SelectedField ==
    LET probe == [pages |-> <<>>, widgets |-> <<>>]
    IN  CHOOSE f \in DOMAIN UpdateArgs("0", probe, version) \ {"dashboardid"} : TRUE

(***************************************************************************)
(* C17: the field the update branch sends is a key of every document the   *)
(* run has built, whatever the mode, the version and the proxies: pages    *)
(* when the update sends pages, widgets when it sends widgets; and every   *)
(* update call that is issued carries that field with the value it has in  *)
(* the document.                                                           *)
(***************************************************************************)
C17_UpdateFieldAlwaysPresent ==
    LoopEntered =>
        /\ SelectedField \in {"pages", "widgets"}
        /\ \A k \in 1..Len(dashboards) : SelectedField \in DOMAIN dashboards[k]
        /\ \A j \in CallsOf("dashboard.update") :
              /\ SelectedField \in DOMAIN calls[j].arg
              /\ calls[j].arg[SelectedField] = dashboards[calls[j].doc][SelectedField]

C17_Witness ==
    /\ version = <<5, 4, 0>>
    /\ creation_mode = "single"
    /\ pc = "done"
    /\ Len(dashboards) = 2
    /\ SelectedField = "pages"
    /\ \E j \in CallsOf("dashboard.update") :
          /\ calls[j].doc = 2
          /\ calls[j].arg["pages"] = dashboards[2]["pages"]

=============================================================================
